---- MODULE Spec2Model ----
(***************************************************************************)
(* Adaptive difficulty progression of the quiz backend                     *)
(* (backend/adaptive_learning.py, AdaptiveLearningEngine).                 *)
(*                                                                         *)
(* The state is one UserProgress aggregate.  process_answer mutates it:    *)
(* per category a CategoryProgress (level, streak, totals), per            *)
(* "category:subcategory:level" key a tracker (window of the last 4        *)
(* outcomes, wrong_count_at_level), and the global streaks and totals.     *)
(*                                                                         *)
(* Timestamps (last_updated, last_activity) and the print() calls carry no *)
(* control flow and are left out.  The tracking key is the string          *)
(* f"{category}:{subcategory}:{level}"; it is modelled as the tuple        *)
(* <<category, subcategory, level>>.                                       *)
(***************************************************************************)
EXTENDS Integers, Sequences, FiniteSets, TLC

VARIABLES
    progress,   \* the user's UserProgress object
    before,     \* history: progress as it was when the last call started
    calls,      \* history: one entry per process_answer call, oldest first
    submitted,  \* history: number of answers submitted since the initial state
    argument,   \* the object the caller passed to the last call, as it is now
    pool,       \* the caller's list of candidate questions (available_questions)
    selection,  \* history: the last get_next_questions call and what it returned
    stored,     \* db.user_progress: the user's persisted progress document
    handlers,   \* the submit_answer requests in flight, each with its locals
    response,   \* history: the last get_adaptive_questions request and its reply
    usage,      \* db.users and db.daily_usage: the user's tier and today's record
    exam_sessions,  \* db.exam_sessions: the user's exam documents
    completing  \* the complete_exam request in flight with its locals, and history

vars == <<progress, before, calls, submitted, argument, pool, selection, stored, handlers,
          response, usage, exam_sessions, completing>>

----------------------------------------------------------------------------
(* Bounds of the model *)

\* number of process_answer calls explored after the initial state
MaxAnswers == 5

\* number of process_answer calls explored before a get_next_questions call
MaxSelectAnswers == 2

\* largest count asked of get_next_questions
MaxCount == 3

\* number of process_answer calls explored when time_taken may be negative
MaxReturnedAnswers == 3
MaxCompletions == 3
MaxTimedAnswers == 3

----------------------------------------------------------------------------
(* models.py *)

EASY == 1
MEDIUM == 2
HARD == 3
EXTREME == 4

DifficultyLevel == {EASY, MEDIUM, HARD, EXTREME}

\* two of the QuestionCategory values
QuestionCategory == {"cardiology", "renal"}

\* Question.subcategory is Optional[str]
None == "None"

\* the questions of the catalog that can be answered: two subcategories of
\* one category (one of them absent on the record) and a second category
Questions ==
    { [category |-> "cardiology", subcategory |-> None],
      [category |-> "cardiology", subcategory |-> "ecg"],
      [category |-> "renal",      subcategory |-> None] }

\* UserAnswer.time_taken, seconds
TimeTakenValues == {2}

\* UserAnswer.time_taken is a plain int: a client may send a negative one
AnyTimeTakenValues == TimeTakenValues \cup {-3}

\* the candidate questions a caller fetched from the catalog, in list order
QuestionPool ==
    << [id |-> "q1", category |-> "cardiology", difficulty |-> EASY],
       [id |-> "q2", category |-> "renal",      difficulty |-> EASY],
       [id |-> "q3", category |-> "cardiology", difficulty |-> EASY],
       [id |-> "q4", category |-> "renal",      difficulty |-> EASY],
       [id |-> "q5", category |-> "cardiology", difficulty |-> MEDIUM],
       [id |-> "q6", category |-> "renal",      difficulty |-> MEDIUM] >>

\* the count a caller may pass: get_adaptive_questions takes any int
CountValues == {-1, 0} \cup (1..MaxCount)

\* two submit_answer requests of the one user
Requests == {"r1", "r2"}

\* a CategoryProgress created at the default of AIGenerationRequest, MEDIUM
NewCategoryProgressAtMedium ==
    [current_difficulty |-> MEDIUM,
     correct_streak     |-> 0,
     total_answered     |-> 0,
     total_correct      |-> 0]

\* CategoryProgress as process_answer creates it
NewCategoryProgress ==
    [current_difficulty |-> EASY,
     correct_streak     |-> 0,
     total_answered     |-> 0,
     total_correct      |-> 0]

\* UserProgress(user_id=...) : every counter zero, both maps empty
NewUserProgress ==
    [category_progress        |-> <<>>,
     subcategory_tracking     |-> <<>>,
     total_questions_answered |-> 0,
     total_correct            |-> 0,
     highest_streak           |-> 0,
     current_streak           |-> 0,
     total_time_spent         |-> 0,
     qualifying_sessions_completed |-> 0,
     full_bank_unlocked       |-> FALSE]

----------------------------------------------------------------------------
(* adaptive_learning.py : class constants *)

DIFFICULTY_ORDER == <<EASY, MEDIUM, HARD, EXTREME>>

LEVEL_UP_CORRECT_REQUIRED == 3
LEVEL_UP_WINDOW == 4
LEVEL_DOWN_WRONG_THRESHOLD == 2

\* DIFFICULTY_ORDER.index(level); positions are 1-based here, 0-based in Python
IndexOf(level) == CHOOSE i \in 1..Len(DIFFICULTY_ORDER) : DIFFICULTY_ORDER[i] = level

\* sum(recent) over a list of booleans
RECURSIVE Sum(_)
Sum(recent) ==
    IF recent = <<>> THEN 0
    ELSE (IF Head(recent) THEN 1 ELSE 0) + Sum(Tail(recent))

\* seq[-n:]
LastN(seq, n) ==
    IF Len(seq) <= n THEN seq ELSE SubSeq(seq, Len(seq) - n + 1, Len(seq))

\* the tracker process_answer creates for a key it has not seen
NewTracking == [recent_answers |-> <<>>, wrong_count_at_level |-> 0]

\* a window truncated from the wrong end: the first LEVEL_UP_WINDOW are kept
RecentAnswersOldest(recent_answers, is_correct) ==
    LET appended == Append(recent_answers, is_correct)
    IN  IF Len(appended) > LEVEL_UP_WINDOW
        THEN SubSeq(appended, 1, LEVEL_UP_WINDOW)
        ELSE appended

\* lines 78-81: append the outcome, keep only the last LEVEL_UP_WINDOW
RecentAnswers(recent_answers, is_correct) ==
    LET appended == Append(recent_answers, is_correct)
    IN  IF Len(appended) > LEVEL_UP_WINDOW
        THEN LastN(appended, LEVEL_UP_WINDOW)
        ELSE appended

\* highest_streak overwritten without the comparison
HighestStreakOverwritten(current_streak, highest_streak) == current_streak

\* lines 90-92: highest_streak once current_streak has been incremented
HighestStreak(current_streak, highest_streak) ==
    IF current_streak > highest_streak THEN current_streak ELSE highest_streak

\* a level-up rule that counts 2 correct as enough
LevelUpOnTwo(recent, current_index) ==
    /\ Len(recent) >= LEVEL_UP_WINDOW
    /\ Sum(LastN(recent, LEVEL_UP_WINDOW)) >= LEVEL_UP_CORRECT_REQUIRED - 1
    /\ current_index < Len(DIFFICULTY_ORDER)

\* a level-up rule that does not wait for the window to fill
LevelUpBeforeFull(recent, current_index) ==
    /\ Sum(LastN(recent, LEVEL_UP_WINDOW)) >= LEVEL_UP_CORRECT_REQUIRED
    /\ current_index < Len(DIFFICULTY_ORDER)

\* lines 146-149: the level-up rule, 3 correct from the last 4, below the top
LevelUp(recent, current_index) ==
    /\ Len(recent) >= LEVEL_UP_WINDOW
    /\ Sum(LastN(recent, LEVEL_UP_WINDOW)) >= LEVEL_UP_CORRECT_REQUIRED
    /\ current_index < Len(DIFFICULTY_ORDER)

\* a level-down rule with > in place of >=
LevelDownStrict(level_changed, wrong_count_at_level, current_index) ==
    /\ ~level_changed
    /\ wrong_count_at_level > LEVEL_DOWN_WRONG_THRESHOLD
    /\ current_index > 1

\* a level-down rule whose floor is one level too high
LevelDownAboveCompetent(level_changed, wrong_count_at_level, current_index) ==
    /\ ~level_changed
    /\ wrong_count_at_level >= LEVEL_DOWN_WRONG_THRESHOLD
    /\ current_index > 2

\* lines 155-156: the level-down rule, 2 wrong at the level, above the bottom
LevelDown(level_changed, wrong_count_at_level, current_index) ==
    /\ ~level_changed
    /\ wrong_count_at_level >= LEVEL_DOWN_WRONG_THRESHOLD
    /\ current_index > 1

\* a next-level lookup that wraps around instead of stopping at the top
apply_adaptive_logic_wrapping(cat_progress, tracking) ==
    LET current_index == IndexOf(cat_progress.current_difficulty)
        recent == tracking.recent_answers
        up == /\ Len(recent) >= LEVEL_UP_WINDOW
              /\ Sum(LastN(recent, LEVEL_UP_WINDOW)) >= LEVEL_UP_CORRECT_REQUIRED
        down == LevelDown(up, tracking.wrong_count_at_level, current_index)
        difficulty ==
            IF up THEN DIFFICULTY_ORDER[(current_index % Len(DIFFICULTY_ORDER)) + 1]
            ELSE IF down THEN DIFFICULTY_ORDER[current_index - 1]
            ELSE cat_progress.current_difficulty
    IN  [cat_progress  |-> [cat_progress EXCEPT !.current_difficulty = difficulty],
         level_changed |-> up \/ down]

\* the level-down rule applied to the level just raised, without "not level_changed"
apply_adaptive_logic_both(cat_progress, tracking) ==
    LET current_index == IndexOf(cat_progress.current_difficulty)
        up == LevelUp(tracking.recent_answers, current_index)
        raised_index == IF up THEN current_index + 1 ELSE current_index
        down == /\ tracking.wrong_count_at_level >= LEVEL_DOWN_WRONG_THRESHOLD
                /\ raised_index > 1
        difficulty ==
            IF down THEN DIFFICULTY_ORDER[raised_index - 1]
            ELSE DIFFICULTY_ORDER[raised_index]
    IN  [cat_progress  |-> [cat_progress EXCEPT !.current_difficulty = difficulty],
         level_changed |-> up \/ down]

\* a variant in which a full window of 3 correct of 4 counts as a level change
\* at the top level too, which keeps the level-down rule from running there
apply_adaptive_logic_ceiling(cat_progress, tracking) ==
    LET current_index == IndexOf(cat_progress.current_difficulty)
        recent == tracking.recent_answers
        full == /\ Len(recent) >= LEVEL_UP_WINDOW
                /\ Sum(LastN(recent, LEVEL_UP_WINDOW)) >= LEVEL_UP_CORRECT_REQUIRED
        up == LevelUp(recent, current_index)
        raised == IF up THEN DIFFICULTY_ORDER[current_index + 1]
                  ELSE cat_progress.current_difficulty
        down == LevelDown(full, tracking.wrong_count_at_level, current_index)
        difficulty == IF down THEN DIFFICULTY_ORDER[current_index - 1] ELSE raised
    IN  [cat_progress  |-> [cat_progress EXCEPT !.current_difficulty = difficulty],
         level_changed |-> up \/ down]

\* _apply_adaptive_logic: the updated CategoryProgress and level_changed.
\* Both rules index DIFFICULTY_ORDER from current_index, read once on entry.
apply_adaptive_logic(cat_progress, tracking) ==
    LET current_index == IndexOf(cat_progress.current_difficulty)
        \* lines 145-152
        up == LevelUp(tracking.recent_answers, current_index)
        raised == IF up THEN DIFFICULTY_ORDER[current_index + 1]
                  ELSE cat_progress.current_difficulty
        \* lines 154-159
        down == LevelDown(up, tracking.wrong_count_at_level, current_index)
        difficulty == IF down THEN DIFFICULTY_ORDER[current_index - 1] ELSE raised
    IN  [cat_progress  |-> [cat_progress EXCEPT !.current_difficulty = difficulty],
         level_changed |-> up \/ down]

\* a level change that leaves the wrong count of the old tracker alone
ResetTrackingKeepingCount(subcategory_tracking, level_key, new_level_key) ==
    IF new_level_key \notin DOMAIN subcategory_tracking
    THEN (new_level_key :> NewTracking) @@ subcategory_tracking
    ELSE subcategory_tracking

\* a level change that starts the new level's tracker afresh on every visit
ResetTrackingClearingNew(subcategory_tracking, level_key, new_level_key) ==
    LET reset == [subcategory_tracking EXCEPT ![level_key].wrong_count_at_level = 0]
    IN  (new_level_key :> NewTracking) @@ reset

\* a level change that also empties the window of the level that was left
ResetTrackingClearingOldWindow(subcategory_tracking, level_key, new_level_key) ==
    LET created ==
            IF new_level_key \notin DOMAIN subcategory_tracking
            THEN (new_level_key :> NewTracking) @@ subcategory_tracking
            ELSE subcategory_tracking
    IN  [created EXCEPT ![level_key] = NewTracking]

\* a level change that resets the wrong count only when the level went up
ResetTrackingOnLevelUpOnly(subcategory_tracking, level_key, new_level_key) ==
    LET created ==
            IF new_level_key \notin DOMAIN subcategory_tracking
            THEN (new_level_key :> NewTracking) @@ subcategory_tracking
            ELSE subcategory_tracking
    IN  IF new_level_key[3] > level_key[3]
        THEN [created EXCEPT ![level_key].wrong_count_at_level = 0]
        ELSE created

\* a level change that discards the tracker of the level that was left
ResetTrackingDroppingOld(subcategory_tracking, level_key, new_level_key) ==
    LET created ==
            IF new_level_key \notin DOMAIN subcategory_tracking
            THEN (new_level_key :> NewTracking) @@ subcategory_tracking
            ELSE subcategory_tracking
    IN  [key \in DOMAIN created \ {level_key} |-> created[key]]

\* lines 105-114: after a level change, create the new level's tracker if it
\* is missing and reset the wrong count of the tracker that was active
ResetTracking(subcategory_tracking, level_key, new_level_key) ==
    LET created ==
            IF new_level_key \notin DOMAIN subcategory_tracking
            THEN (new_level_key :> NewTracking) @@ subcategory_tracking
            ELSE subcategory_tracking
    IN  [created EXCEPT ![level_key].wrong_count_at_level = 0]

\* category statistics that keep the streak over a wrong answer
CategoryStatisticsKeepingStreak(cat_progress, is_correct) ==
    [cat_progress EXCEPT
        !.total_answered = @ + 1,
        !.total_correct  = IF is_correct THEN @ + 1 ELSE @,
        !.correct_streak = IF is_correct THEN @ + 1 ELSE @]

\* category statistics that count an answer only when it is correct
CategoryStatisticsCountingCorrectOnly(cat_progress, is_correct) ==
    [cat_progress EXCEPT
        !.total_answered = IF is_correct THEN @ + 1 ELSE @,
        !.total_correct  = IF is_correct THEN @ + 1 ELSE @,
        !.correct_streak = IF is_correct THEN @ + 1 ELSE 0]

\* lines 83-94: the category's totals and streak after one more answer
CategoryStatistics(cat_progress, is_correct) ==
    [cat_progress EXCEPT
        !.total_answered = @ + 1,
        !.total_correct  = IF is_correct THEN @ + 1 ELSE @,
        !.correct_streak = IF is_correct THEN @ + 1 ELSE 0]

\* a global streak that a wrong answer leaves alone
CurrentStreakKeptOnWrong(current_streak, is_correct) ==
    IF is_correct THEN current_streak + 1 ELSE current_streak

\* lines 89 and 95: the global streak after one more answer
CurrentStreak(current_streak, is_correct) ==
    IF is_correct THEN current_streak + 1 ELSE 0

\* line 44: the subcategory of a question, the category name when it has none
SubcategoryOf(question) ==
    IF question.subcategory # None THEN question.subcategory ELSE question.category

\* process_answer(progress, answer, question): the progress it returns
process_answer(p, answer, question) ==
    LET category    == question.category
        subcategory == SubcategoryOf(question)
        \* lines 49-58
        cats0 == IF category \notin DOMAIN p.category_progress
                 THEN (category :> NewCategoryProgress) @@ p.category_progress
                 ELSE p.category_progress
        cat0  == cats0[category]
        \* lines 67-74
        level_key == <<category, subcategory, cat0.current_difficulty>>
        track0 == IF level_key \notin DOMAIN p.subcategory_tracking
                  THEN (level_key :> NewTracking) @@ p.subcategory_tracking
                  ELSE p.subcategory_tracking
        \* lines 78-96
        tracking ==
            [recent_answers |->
                 RecentAnswers(track0[level_key].recent_answers, answer.is_correct),
             wrong_count_at_level |->
                 track0[level_key].wrong_count_at_level
                     + (IF answer.is_correct THEN 0 ELSE 1)]
        cat1 == CategoryStatistics(cat0, answer.is_correct)
        current_streak == CurrentStreak(p.current_streak, answer.is_correct)
        highest_streak ==
            IF answer.is_correct
            THEN HighestStreak(current_streak, p.highest_streak)
            ELSE p.highest_streak
        \* lines 98-103
        applied == apply_adaptive_logic(cat1, tracking)
        \* lines 105-114
        track1 == [track0 EXCEPT ![level_key] = tracking]
        track2 ==
            IF applied.level_changed
            THEN ResetTracking(track1, level_key,
                     <<category, subcategory, applied.cat_progress.current_difficulty>>)
            ELSE track1
    IN  \* lines 116-126
        [category_progress        |-> [cats0 EXCEPT ![category] = applied.cat_progress],
         subcategory_tracking     |-> track2,
         total_questions_answered |-> p.total_questions_answered + 1,
         total_correct            |-> p.total_correct + (IF answer.is_correct THEN 1 ELSE 0),
         highest_streak           |-> highest_streak,
         current_streak           |-> current_streak,
         total_time_spent         |-> p.total_time_spent + answer.time_taken,
         \* fields process_answer never assigns
         qualifying_sessions_completed |-> p.qualifying_sessions_completed,
         full_bank_unlocked       |-> p.full_bank_unlocked]

----------------------------------------------------------------------------
(* The state machine: a user's progress under a sequence of answers *)

\* the difficulty a category is at in progress p (EASY when it has no entry yet)
LevelOf(p, category) ==
    IF category \in DOMAIN p.category_progress
    THEN p.category_progress[category].current_difficulty
    ELSE EASY

\* the history entry of one call: its inputs and the level before and after
CallEntry(p, answer, question) ==
    [category    |-> question.category,
     subcategory |-> SubcategoryOf(question),
     is_correct  |-> answer.is_correct,
     time_taken  |-> answer.time_taken,
     existed     |-> question.category \in DOMAIN p.category_progress,
     level       |-> LevelOf(p, question.category),
     new_level   |-> LevelOf(process_answer(p, answer, question), question.category)]

\* a process_answer that works on a deep copy and leaves its argument alone
MutatedArgumentOfCopy(p, answer, question) == p

\* The object passed as progress once process_answer has returned: lines
\* 50-124 assign into that object and the objects it holds, and line 126
\* returns the object itself, so it holds what the returned value holds.
MutatedArgument(p, answer, question) == process_answer(p, answer, question)

\* one call of process_answer on the world w = [progress, before, calls, argument]
Answered(w, answer, question) ==
    [progress |-> process_answer(w.progress, answer, question),
     before   |-> w.progress,
     calls    |-> Append(w.calls, CallEntry(w.progress, answer, question)),
     argument |-> MutatedArgument(w.progress, answer, question)]

\* a user registers with a fresh UserProgress
Registered ==
    [progress |-> NewUserProgress, before |-> NewUserProgress, calls |-> <<>>,
     argument |-> NewUserProgress]

\* no get_next_questions call has been made
NoSelection == [made |-> FALSE, category |-> None, count |-> 0, selected |-> <<>>]

\* a request that has not reached the handler yet
NoHandler ==
    [pc |-> "none",
     answer |-> [is_correct |-> FALSE, time_taken |-> 0],
     question |-> [category |-> None, subcategory |-> None],
     progress_obj |-> NewUserProgress]

\* no get_adaptive_questions request has been made
NoResponse ==
    [made |-> FALSE, category |-> None, count |-> 0, questions_obj |-> <<>>,
     selected |-> <<>>, returned |-> <<>>]

\* server.py 1052-1058: the daily limit of each subscription tier, -1 for none
DAILY_LIMITS_BY_TIER ==
    [free |-> 50, weekly |-> 200, monthly |-> 500, quarterly |-> -1, annual |-> -1]

\* a subscriber of an unlimited tier: no daily_usage record is ever read or
\* written for such a user (lines 1094-1095 and 1400)
NoUsage == [tier |-> "annual", found |-> FALSE, questions_viewed |-> 0, accepted |-> 0]

\* the exams the user has started: total questions and correctly answered
\* ones, as complete_exam counts them
ExamSessions ==
    [e1 |-> [total |-> 50, correct |-> 43, completed |-> FALSE, score |-> 0,
             is_qualifying_session |-> FALSE],
     e2 |-> [total |-> 60, correct |-> 51, completed |-> FALSE, score |-> 0,
             is_qualifying_session |-> FALSE],
     e3 |-> [total |-> 50, correct |-> 50, completed |-> FALSE, score |-> 0,
             is_qualifying_session |-> FALSE],
     e4 |-> [total |-> 50, correct |-> 42, completed |-> FALSE, score |-> 0,
             is_qualifying_session |-> FALSE],
     e5 |-> [total |-> 49, correct |-> 49, completed |-> FALSE, score |-> 0,
             is_qualifying_session |-> FALSE]]

\* no complete_exam request is running; increments counts, per exam, the
\* writes that added 1 to qualifying_sessions_completed
NotCompleting ==
    [pc |-> "none", exam_id |-> None, score |-> 0, is_qualifying |-> FALSE,
     new_qualifying |-> 0, started |-> 0,
     increments |-> [exam_id \in DOMAIN ExamSessions |-> 0]]

\* n correct answers to one question, from registration on
RECURSIVE Climbed(_, _)
Climbed(question, n) ==
    IF n = 0 THEN Registered
    ELSE Answered(Climbed(question, n - 1),
                  [is_correct |-> TRUE, time_taken |-> CHOOSE t \in TimeTakenValues : TRUE],
                  question)

\* The user has registered and may already have climbed to any level by
\* answering the first cardiology question correctly LEVEL_UP_WINDOW times a level.
InitialWorlds ==
    { Climbed([category |-> "cardiology", subcategory |-> None], LEVEL_UP_WINDOW * k) :
        k \in 0..(Len(DIFFICULTY_ORDER) - 1) }

Init ==
    \E w \in InitialWorlds :
        /\ progress = w.progress
        /\ before = w.before
        /\ calls = w.calls
        /\ submitted = 0
        /\ argument = w.argument
        /\ pool = QuestionPool
        /\ selection = NoSelection
        /\ stored = [found |-> w.calls # <<>>, document |-> w.progress]
        /\ handlers = [r \in Requests |-> NoHandler]
        /\ response = NoResponse
        /\ usage = NoUsage
        /\ exam_sessions = ExamSessions
        /\ completing = NotCompleting

\* submit_answer, one request at a time: it hands one answer to
\* process_answer and stores the result
ProcessAnswer(answer, question) ==
    LET w == Answered([progress |-> progress, before |-> before, calls |-> calls,
                       argument |-> argument],
                      answer, question)
    IN  /\ progress' = w.progress
        /\ before' = w.before
        /\ calls' = w.calls
        /\ submitted' = submitted + 1
        /\ argument' = w.argument
        /\ stored' = [found |-> TRUE, document |-> w.progress]
        /\ UNCHANGED <<pool, selection, handlers, response, usage, exam_sessions, completing>>

Next ==
    \E question \in Questions, is_correct \in BOOLEAN, time_taken \in TimeTakenValues :
        /\ submitted < MaxAnswers
        /\ ProcessAnswer([is_correct |-> is_correct, time_taken |-> time_taken], question)

Spec == Init /\ [][Next]_vars

\* the same state machine with answers whose time_taken may be negative
NextAnyTime ==
    \E question \in Questions, is_correct \in BOOLEAN, time_taken \in AnyTimeTakenValues :
        /\ submitted < MaxTimedAnswers
        /\ ProcessAnswer([is_correct |-> is_correct, time_taken |-> time_taken], question)

SpecAnyTime == Init /\ [][NextAnyTime]_vars

----------------------------------------------------------------------------
(* adaptive_learning.py : get_next_questions *)

\* Python's seq[:count]: a negative count leaves out the last -count entries
Slice(seq, count) ==
    LET stop == IF count >= 0
                THEN (IF count < Len(seq) THEN count ELSE Len(seq))
                ELSE (IF Len(seq) + count > 0 THEN Len(seq) + count ELSE 0)
    IN  SubSeq(seq, 1, stop)

\* the orders random.shuffle can leave a list in
Shuffles(seq) ==
    { [i \in 1..Len(seq) |-> seq[pi[i]]] : pi \in Permutations(1..Len(seq)) }

\* a shuffle of the caller's list in place of the filtered one
ShuffledCallersList(available_questions, filtered) ==
    { [available_questions |-> shuffled, filtered |-> filtered] :
        shuffled \in Shuffles(available_questions) }

\* lines 196-197: random.shuffle(filtered); filtered is a list built by
\* get_next_questions, so the caller's list is not touched
Shuffled(available_questions, filtered) ==
    { [available_questions |-> available_questions, filtered |-> shuffled] :
        shuffled \in Shuffles(filtered) }

\* a category filter that forgets the difficulty
CategoryFilteredAnyDifficulty(available_questions, category, target_difficulty) ==
    SelectSeq(available_questions, LAMBDA q : q.category = category)

\* lines 187-190: the questions of the category at the target difficulty
CategoryFiltered(available_questions, category, target_difficulty) ==
    SelectSeq(available_questions,
              LAMBDA q : q.category = category /\ q.difficulty = target_difficulty)

\* lines 219-222: the same filter, by category name
CategoryQuestions(available_questions, category_name, target_difficulty) ==
    SelectSeq(available_questions,
              LAMBDA q : q.category = category_name /\ q.difficulty = target_difficulty)

\* lines 232-237: score a < score b, where a score is total_correct /
\* total_answered, or 0 when nothing was answered (compared as fractions)
ScoreBelow(p, a, b) ==
    LET ca == p.category_progress[a]
        cb == p.category_progress[b]
        na == IF ca.total_answered > 0 THEN ca.total_correct ELSE 0
        da == IF ca.total_answered > 0 THEN ca.total_answered ELSE 1
        nb == IF cb.total_answered > 0 THEN cb.total_correct ELSE 0
        db == IF cb.total_answered > 0 THEN cb.total_answered ELSE 1
    IN  na * db < nb * da

\* the lists of the names in S, each once
Orderings(S) ==
    { order \in [1..Cardinality(S) -> S] :
        \A i, j \in 1..Cardinality(S) : order[i] = order[j] => i = j }

\* a ranking that takes in every category, with or without progress
get_categories_by_performance_all(p) ==
    { order \in Orderings(QuestionCategory) :
        \A i, j \in 1..Len(order) :
            (i < j /\ order[i] \in DOMAIN p.category_progress
                   /\ order[j] \in DOMAIN p.category_progress)
                => ~ScoreBelow(p, order[j], order[i]) }

\* _get_categories_by_performance: the categories with progress, weakest
\* first.  sorted() is stable and keeps equal scores in the order of the
\* dict; that order is not part of this model, so every order of equal
\* scores is a possible result.
get_categories_by_performance(p) ==
    { order \in Orderings(DOMAIN p.category_progress) :
        \A i, j \in 1..Len(order) : i < j => ~ScoreBelow(p, order[j], order[i]) }

\* lines 212-224: the matches of the first n categories of the ranking, appended
RECURSIVE Extended(_, _, _, _)
Extended(p, available_questions, categories_by_performance, n) ==
    IF n = 0 THEN <<>>
    ELSE Extended(p, available_questions, categories_by_performance, n - 1)
         \o CategoryQuestions(available_questions, categories_by_performance[n],
                              LevelOf(p, categories_by_performance[n]))

\* _select_adaptive_questions: the lists it can return
select_adaptive_questions(p, available_questions) ==
    { Extended(p, available_questions, order, Len(order)) :
        order \in get_categories_by_performance(p) }

\* get_next_questions: what it can return, with the caller's list and the
\* progress as the call leaves them (category = None: no category given)
get_next_questions(p, available_questions, category, count) ==
    LET filtered ==
            IF category # None
            THEN { CategoryFiltered(available_questions, category, LevelOf(p, category)) }
            ELSE select_adaptive_questions(p, available_questions)
        shuffled == UNION { Shuffled(available_questions, f) : f \in filtered }
    IN  { [selected            |-> Slice(sh.filtered, count),
           available_questions |-> sh.available_questions,
           progress            |-> p] : sh \in shuffled }

\* get_adaptive_questions asks the engine for questions; the model follows
\* one such call per behaviour
GetNextQuestions(category, count) ==
    \E result \in get_next_questions(progress, pool, category, count) :
        /\ selection' = [made |-> TRUE, category |-> category, count |-> count,
                         selected |-> result.selected]
        /\ pool' = result.available_questions
        /\ progress' = result.progress
        /\ before' = progress
        /\ UNCHANGED <<calls, submitted, argument, stored, handlers, response, usage,
                     exam_sessions, completing>>

NextSelect ==
    \/ \E question \in Questions, is_correct \in BOOLEAN, time_taken \in TimeTakenValues :
        /\ ~selection.made
        /\ submitted < MaxSelectAnswers
        /\ ProcessAnswer([is_correct |-> is_correct, time_taken |-> time_taken], question)
    \/ \E category \in QuestionCategory \cup {None}, count \in CountValues :
        /\ ~selection.made
        /\ GetNextQuestions(category, count)

SpecSelect == Init /\ [][NextSelect]_vars

----------------------------------------------------------------------------
(* Vocabulary of the properties: the last call and the history of calls *)

\* the last process_answer call
\* the user has answered the first cardiology question with these outcomes,
\* from registration on
RECURSIVE Replayed(_)
Replayed(outcomes) ==
    IF outcomes = <<>> THEN Registered
    ELSE Answered(Replayed(SubSeq(outcomes, 1, Len(outcomes) - 1)),
                  [is_correct |-> outcomes[Len(outcomes)],
                   time_taken |-> CHOOSE t \in TimeTakenValues : TRUE],
                  [category |-> "cardiology", subcategory |-> None])

\* users whose cardiology went up a level and, after two wrong answers there,
\* came back: to Foundational with a window of 3 or of 4 correct, and to
\* Competent with a window of 4 correct
ReturnedWorlds ==
    { Replayed(<<TRUE, TRUE, FALSE, TRUE, FALSE, FALSE>>),
      Replayed(<<TRUE, TRUE, TRUE, TRUE, FALSE, FALSE>>),
      Replayed(<<TRUE, TRUE, TRUE, TRUE, TRUE, TRUE, TRUE, TRUE, FALSE, FALSE>>) }

InitReturned ==
    \E w \in ReturnedWorlds :
        /\ progress = w.progress
        /\ before = w.before
        /\ calls = w.calls
        /\ submitted = 0
        /\ argument = w.argument
        /\ pool = QuestionPool
        /\ selection = NoSelection
        /\ stored = [found |-> TRUE, document |-> w.progress]
        /\ handlers = [r \in Requests |-> NoHandler]
        /\ response = NoResponse
        /\ usage = NoUsage
        /\ exam_sessions = ExamSessions
        /\ completing = NotCompleting

\* answers of a user who has come back to a level
NextReturned ==
    \E question \in Questions, is_correct \in BOOLEAN, time_taken \in TimeTakenValues :
        /\ submitted < MaxReturnedAnswers
        /\ ProcessAnswer([is_correct |-> is_correct, time_taken |-> time_taken], question)

SpecReturned == InitReturned /\ [][NextReturned]_vars

Last == calls[Len(calls)]

\* the tracker key the last call recorded its answer on
ActiveKey == <<Last.category, Last.subcategory, Last.level>>

\* the key of the same subcategory at the level the last call ended at
NewLevelKey == <<Last.category, Last.subcategory, Last.new_level>>

\* the tracker key call i recorded its answer on
KeyOfCall(i) == <<calls[i].category, calls[i].subcategory, calls[i].level>>

\* call i changed the level of its category
ChangedLevel(i) == calls[i].new_level # calls[i].level

\* the tracker of key in progress p, the empty tracker when p has none
TrackerIn(p, key) ==
    IF key \in DOMAIN p.subcategory_tracking
    THEN p.subcategory_tracking[key]
    ELSE [recent_answers |-> <<>>, wrong_count_at_level |-> 0]

\* number of correct outcomes in a window
CorrectIn(window) == Cardinality({i \in 1..Len(window) : window[i]})

\* the window and the wrong count the level rules of the last call looked at
WindowAtRules == progress.subcategory_tracking[ActiveKey].recent_answers
WrongAtRules ==
    TrackerIn(before, ActiveKey).wrong_count_at_level + (IF Last.is_correct THEN 0 ELSE 1)

\* the outcomes recorded on a tracker by the first n calls, oldest first
RECURSIVE Recorded(_, _)
Recorded(key, n) ==
    IF n = 0 THEN <<>>
    ELSE IF KeyOfCall(n) = key
         THEN Append(Recorded(key, n - 1), calls[n].is_correct)
         ELSE Recorded(key, n - 1)

----------------------------------------------------------------------------
(* Properties *)

\* C1: process_answer raises the answered category, by exactly one level, if
\* and only if after the answer is appended the active tracker's window holds
\* 4 outcomes with at least 3 correct and the category was below Advanced.
C1_LevelUpIffThreeOfFour ==
    calls # <<>> =>
        /\ (Last.new_level > Last.level) <=>
               /\ Len(WindowAtRules) = 4
               /\ CorrectIn(WindowAtRules) >= 3
               /\ Last.level < EXTREME
        /\ Last.new_level > Last.level => Last.new_level = Last.level + 1
        /\ LevelOf(progress, Last.category) = Last.new_level
        /\ LevelOf(before, Last.category) = Last.level

\* C1 witness: correct, correct, wrong, correct at Foundational raised the level
C1_Witness ==
    /\ calls # <<>>
    /\ Last.level = EASY
    /\ Last.new_level = MEDIUM
    /\ WindowAtRules = <<TRUE, TRUE, FALSE, TRUE>>

\* the last k calls are consecutive correct answers to one subcategory of a
\* category that had no entry when the first of them was made
FreshRun(k) ==
    /\ Len(calls) >= k
    /\ ~calls[Len(calls) - k + 1].existed
    /\ \A i \in (Len(calls) - k + 1)..Len(calls) :
            /\ calls[i].is_correct
            /\ calls[i].category = Last.category
            /\ calls[i].subcategory = Last.subcategory

\* C2: four consecutive correct answers in one subcategory of a category
\* without entry leave it Foundational after the 1st, 2nd and 3rd and
\* Competent after the 4th.
C2_FourCorrectAdvanceOnce ==
    \A k \in 1..4 :
        FreshRun(k) =>
            LevelOf(progress, Last.category) = (IF k < 4 THEN EASY ELSE MEDIUM)

\* C2 witness: the fourth correct answer of such a run has been processed
C2_Witness ==
    /\ submitted >= 4
    /\ FreshRun(4)
    /\ LevelOf(progress, Last.category) = MEDIUM

\* C3: above Foundational, a wrong answer that brings the active tracker's
\* wrong count to 2 or more while no level-up fires lowers the category by
\* exactly one level on that answer.
C3_TwoWrongLowerOneLevel ==
    ( /\ calls # <<>>
      /\ ~Last.is_correct
      /\ Last.level > EASY
      /\ WrongAtRules >= 2
      /\ ~(Last.new_level > Last.level) )
    => /\ Last.new_level = Last.level - 1
       /\ LevelOf(progress, Last.category) = Last.level - 1

\* C3 witness: Competent, then wrong, wrong in one subcategory, ends Foundational
C3_Witness ==
    /\ Len(calls) >= 2
    /\ submitted >= 2
    /\ ~Last.is_correct
    /\ ~calls[Len(calls) - 1].is_correct
    /\ KeyOfCall(Len(calls) - 1) = ActiveKey
    /\ Last.level = MEDIUM
    /\ WrongAtRules = 2
    /\ LevelOf(progress, Last.category) = EASY

\* call j < i was a wrong answer in the category of call i, and the category
\* stayed at one level from call j up to call i
EarlierWrongAtLevel(j, i) ==
    /\ ~calls[j].is_correct
    /\ calls[j].category = calls[i].category
    /\ calls[j].level = calls[i].level
    /\ \A m \in j..(i - 1) : calls[m].category = calls[i].category => ~ChangedLevel(m)

\* C4 as stated: above Foundational, the second of two wrong answers of a
\* category recorded while it stays at one level, whatever their
\* subcategories, drops the category by exactly one level.
C4_AsStated ==
    ( /\ calls # <<>>
      /\ ~Last.is_correct
      /\ Last.level > EASY
      /\ \E j \in 1..(Len(calls) - 1) : EarlierWrongAtLevel(j, Len(calls)) )
    => Last.new_level = Last.level - 1

\* C4 amended: above Foundational, the second of two wrong answers recorded
\* in one subcategory of a category while the category stays at one level
\* drops the category by exactly one level; no level is below Foundational.
C4_TwoWrongSameSubcategory ==
    /\ ( /\ calls # <<>>
         /\ ~Last.is_correct
         /\ Last.level > EASY
         /\ \E j \in 1..(Len(calls) - 1) :
                /\ EarlierWrongAtLevel(j, Len(calls))
                /\ calls[j].subcategory = Last.subcategory )
       => /\ Last.new_level = Last.level - 1
          /\ LevelOf(progress, Last.category) = Last.level - 1
    /\ \A c \in DOMAIN progress.category_progress : LevelOf(progress, c) >= EASY

\* C4 witness: the second wrong answer of a subcategory came after an answer
\* to the other subcategory and dropped the category
C4_Witness ==
    /\ Len(calls) >= 3
    /\ submitted >= 3
    /\ ~Last.is_correct
    /\ Last.level > EASY
    /\ Last.new_level = Last.level - 1
    /\ EarlierWrongAtLevel(Len(calls) - 2, Len(calls))
    /\ calls[Len(calls) - 2].subcategory = Last.subcategory
    /\ calls[Len(calls) - 1].category = Last.category
    /\ calls[Len(calls) - 1].subcategory # Last.subcategory

\* the level-up rule, read off the tracker after the last call
LevelUpFired ==
    /\ Len(WindowAtRules) = 4
    /\ CorrectIn(WindowAtRules) >= 3
    /\ Last.level < EXTREME

\* C5: a call changes the level of the answered category by at most one
\* level, and when the level-up rule fires the category ends one level
\* higher, also when the tracker's wrong count is 2 or more.
C5_OneChangePerAnswer ==
    calls # <<>> =>
        /\ LevelOf(progress, Last.category) - LevelOf(before, Last.category) \in {-1, 0, 1}
        /\ LevelUpFired => LevelOf(progress, Last.category) = Last.level + 1

\* C5 witness: the level was raised by an answer at which the tracker's wrong
\* count was 2 or more
C5_Witness ==
    /\ calls # <<>>
    /\ submitted >= 1
    /\ LevelUpFired
    /\ WrongAtRules >= 2
    /\ LevelOf(progress, Last.category) = Last.level + 1

\* the last call that changed the level of a category, 0 when none did
RECURSIVE LastChangeOf(_, _)
LastChangeOf(category, n) ==
    IF n = 0 THEN 0
    ELSE IF calls[n].category = category /\ ChangedLevel(n) THEN n
    ELSE LastChangeOf(category, n - 1)

\* the last call recorded on a tracker that changed the level, 0 when none did
RECURSIVE LastVacated(_, _)
LastVacated(key, n) ==
    IF n = 0 THEN 0
    ELSE IF KeyOfCall(n) = key /\ ChangedLevel(n) THEN n
    ELSE LastVacated(key, n - 1)

\* number of wrong answers recorded on a tracker by the calls after call n
WrongSince(key, n) ==
    Cardinality({i \in (n + 1)..Len(calls) : KeyOfCall(i) = key /\ ~calls[i].is_correct})

\* C6 as stated: every tracker's wrong count is the number of wrong answers
\* recorded on it since its category last changed level, so every tracker of
\* the category at a vacated level has wrong count 0.
C6_AsStated ==
    \A key \in DOMAIN progress.subcategory_tracking :
        progress.subcategory_tracking[key].wrong_count_at_level
            = WrongSince(key, LastChangeOf(key[1], Len(calls)))

\* C6 amended: every tracker's wrong count is the number of wrong answers
\* recorded on it since the last answer recorded on it that changed the
\* level; right after a level change the tracker just vacated has wrong
\* count 0.
C6_WrongCountSinceVacated ==
    /\ \A key \in DOMAIN progress.subcategory_tracking :
            progress.subcategory_tracking[key].wrong_count_at_level
                = WrongSince(key, LastVacated(key, Len(calls)))
    /\ (calls # <<>> /\ ChangedLevel(Len(calls)))
           => progress.subcategory_tracking[ActiveKey].wrong_count_at_level = 0

\* C6 witness: a wrong answer lowered the level; its tracker is back at 0
\* while the tracker of the other subcategory at that level keeps its count
C6_Witness ==
    /\ calls # <<>>
    /\ submitted >= 1
    /\ ~Last.is_correct
    /\ Last.new_level = Last.level - 1
    /\ progress.subcategory_tracking[ActiveKey].wrong_count_at_level = 0
    /\ \E key \in DOMAIN progress.subcategory_tracking :
            /\ key[1] = Last.category
            /\ key[2] # Last.subcategory
            /\ key[3] = Last.level
            /\ progress.subcategory_tracking[key].wrong_count_at_level > 0

\* the window of a tracker with one more outcome recorded, by the claim's
\* words: the last min(n, 4) of the outcomes, most recent last
LastFour(outcomes) ==
    LET n == Len(outcomes)
        m == IF n < 4 THEN n ELSE 4
    IN  [i \in 1..m |-> outcomes[n - m + i]]

\* C7: when a call changes the level, the tracker just vacated has wrong
\* count 0 and keeps its window with the answer recorded in it; the tracker
\* of the new level is empty if it did not exist and otherwise exactly as it
\* was before the call.
C7_VacatedAndNewTracker ==
    (calls # <<>> /\ ChangedLevel(Len(calls))) =>
        /\ progress.subcategory_tracking[ActiveKey].wrong_count_at_level = 0
        /\ progress.subcategory_tracking[ActiveKey].recent_answers
               = LastFour(Append(TrackerIn(before, ActiveKey).recent_answers,
                                 Last.is_correct))
        /\ NewLevelKey \in DOMAIN progress.subcategory_tracking
        /\ NewLevelKey \notin DOMAIN before.subcategory_tracking
               => progress.subcategory_tracking[NewLevelKey]
                      = [recent_answers |-> <<>>, wrong_count_at_level |-> 0]
        /\ NewLevelKey \in DOMAIN before.subcategory_tracking
               => progress.subcategory_tracking[NewLevelKey]
                      = before.subcategory_tracking[NewLevelKey]

\* C7 witness: a wrong answer took the category back to a level whose
\* tracker still holds the window of the earlier visit
C7_Witness ==
    /\ calls # <<>>
    /\ submitted >= 1
    /\ Last.new_level = Last.level - 1
    /\ NewLevelKey \in DOMAIN before.subcategory_tracking
    /\ progress.subcategory_tracking[NewLevelKey].recent_answers
           = <<TRUE, TRUE, TRUE, TRUE>>
    /\ progress.subcategory_tracking[ActiveKey].recent_answers # <<>>

\* C8: every tracker's window holds at most 4 outcomes and is the last
\* min(n, 4) of the n outcomes recorded on the tracker, most recent last.
C8_WindowIsLastFour ==
    \A key \in DOMAIN progress.subcategory_tracking :
        /\ Len(progress.subcategory_tracking[key].recent_answers) <= 4
        /\ progress.subcategory_tracking[key].recent_answers
               = LastFour(Recorded(key, Len(calls)))

\* C8 witness: a tracker has recorded more than 4 outcomes, and the one that
\* left the window differs from the oldest one still in it
C8_Witness ==
    \E key \in DOMAIN progress.subcategory_tracking :
        LET outcomes == Recorded(key, Len(calls))
        IN  /\ Len(outcomes) > 4
            /\ outcomes[1] # progress.subcategory_tracking[key].recent_answers[1]

\* C9: highest_streak never decreases over a call, and after a correct
\* answer it is the maximum of its previous value and the new current_streak.
C9_HighestStreakMonotone ==
    /\ progress.highest_streak >= before.highest_streak
    /\ (calls # <<>> /\ Last.is_correct) =>
           /\ progress.highest_streak >= progress.current_streak
           /\ progress.highest_streak >= before.highest_streak
           /\ progress.highest_streak \in {progress.current_streak, before.highest_streak}

\* C9 witness: a correct answer started a new streak below the highest one
C9_Witness ==
    /\ calls # <<>>
    /\ submitted >= 1
    /\ Last.is_correct
    /\ progress.current_streak = 1
    /\ before.highest_streak > 1
    /\ progress.highest_streak = before.highest_streak

\* C10: a correct answer to a category at Advanced leaves it at Advanced and
\* adds 1 to the category's correct_streak and to the global current_streak.
C10_AdvancedIsCeiling ==
    /\ \A c \in DOMAIN progress.category_progress : LevelOf(progress, c) <= EXTREME
    /\ (calls # <<>> /\ Last.is_correct /\ Last.level = EXTREME) =>
           /\ LevelOf(progress, Last.category) = EXTREME
           /\ progress.category_progress[Last.category].correct_streak
                  = before.category_progress[Last.category].correct_streak + 1
           /\ progress.current_streak = before.current_streak + 1

\* C10 witness: four correct answers in a row at Advanced, window full of
\* correct outcomes, and the category still at Advanced
C10_Witness ==
    /\ submitted >= 4
    /\ \A i \in (Len(calls) - 3)..Len(calls) :
            /\ calls[i].is_correct
            /\ calls[i].level = EXTREME
            /\ KeyOfCall(i) = ActiveKey
    /\ WindowAtRules = <<TRUE, TRUE, TRUE, TRUE>>
    /\ LevelOf(progress, Last.category) = EXTREME

\* C11 as stated: every level is one of the four, a new category starts at
\* Foundational, and a wrong answer at Foundational leaves the level unchanged.
C11_AsStated ==
    /\ \A c \in DOMAIN progress.category_progress :
            LevelOf(progress, c) \in DifficultyLevel
    /\ (calls # <<>> /\ ~Last.existed) => LevelOf(progress, Last.category) = EASY
    /\ (calls # <<>> /\ ~Last.is_correct /\ Last.level = EASY)
           => LevelOf(progress, Last.category) = EASY

\* C11 amended: every level is one of the four, a new category starts at
\* Foundational, no answer lowers a category at Foundational, and a wrong
\* answer at Foundational on which the level-up rule does not fire leaves the
\* level unchanged and the tracker's wrong count one higher.
C11_FoundationalIsFloor ==
    /\ \A c \in DOMAIN progress.category_progress :
            LevelOf(progress, c) \in DifficultyLevel
    /\ (calls # <<>> /\ ~Last.existed) =>
           /\ Last.category \notin DOMAIN before.category_progress
           /\ LevelOf(progress, Last.category) = EASY
    /\ (calls # <<>> /\ Last.level = EASY) => LevelOf(progress, Last.category) >= EASY
    /\ (calls # <<>> /\ ~Last.is_correct /\ Last.level = EASY /\ ~LevelUpFired) =>
           /\ LevelOf(progress, Last.category) = EASY
           /\ progress.subcategory_tracking[ActiveKey].wrong_count_at_level
                  = TrackerIn(before, ActiveKey).wrong_count_at_level + 1

\* C11 witness: a third wrong answer in a row on a Foundational tracker, the
\* level still Foundational and the wrong count past the threshold
C11_Witness ==
    /\ submitted >= 3
    /\ ~Last.is_correct
    /\ Last.level = EASY
    /\ LevelOf(progress, Last.category) = EASY
    /\ progress.subcategory_tracking[ActiveKey].wrong_count_at_level = 3

\* C12: a call adds 1 to the category's total_answered and to the global
\* total_questions_answered; a correct answer adds 1 to both total_correct
\* counters and both streaks; a wrong answer leaves both total_correct
\* counters, zeroes both streaks and adds 1 to the active tracker's wrong
\* count before the level rules look at it.
C12_CountersPerAnswer ==
    calls # <<>> =>
        LET old == IF Last.existed THEN before.category_progress[Last.category]
                   ELSE [current_difficulty |-> EASY, correct_streak |-> 0,
                         total_answered |-> 0, total_correct |-> 0]
            new == progress.category_progress[Last.category]
            wrong_before == TrackerIn(before, ActiveKey).wrong_count_at_level
            wrong_after == progress.subcategory_tracking[ActiveKey].wrong_count_at_level
        IN  /\ new.total_answered = old.total_answered + 1
            /\ progress.total_questions_answered = before.total_questions_answered + 1
            /\ Last.is_correct =>
                   /\ new.total_correct = old.total_correct + 1
                   /\ progress.total_correct = before.total_correct + 1
                   /\ new.correct_streak = old.correct_streak + 1
                   /\ progress.current_streak = before.current_streak + 1
                   /\ wrong_after = (IF ChangedLevel(Len(calls)) THEN 0 ELSE wrong_before)
            /\ ~Last.is_correct =>
                   /\ new.total_correct = old.total_correct
                   /\ progress.total_correct = before.total_correct
                   /\ new.correct_streak = 0
                   /\ progress.current_streak = 0
                   /\ wrong_after = (IF ChangedLevel(Len(calls)) THEN 0 ELSE wrong_before + 1)
                   /\ (wrong_before = 1 /\ Last.level > EASY /\ ~LevelUpFired)
                          => Last.new_level = Last.level - 1

\* C12 witness: a wrong answer ended a streak of the category and of the user
C12_Witness ==
    /\ calls # <<>>
    /\ submitted >= 1
    /\ ~Last.is_correct
    /\ Last.existed
    /\ before.category_progress[Last.category].correct_streak >= 2
    /\ before.current_streak >= 2
    /\ progress.category_progress[Last.category].correct_streak = 0
    /\ progress.subcategory_tracking[ActiveKey].wrong_count_at_level = 1

\* C17 as stated: a call whose answer has a negative time_taken changes
\* nothing in progress.
C17_AsStated ==
    (calls # <<>> /\ submitted >= 1 /\ Last.time_taken < 0) => progress = before

LoadedProgress(document) ==
    IF document.found THEN document.document ELSE NewUserProgress

\* lines 1413-1420: request r arrives with its answer and reads the stored
\* progress
Load(r, answer, question) ==
    /\ handlers[r].pc = "none"
    /\ handlers' = [handlers EXCEPT ![r] =
                        [pc |-> "loaded", answer |-> answer,
                         question |-> [category |-> question.category,
                                       subcategory |-> question.subcategory],
                         progress_obj |-> LoadedProgress(stored)]]
    /\ UNCHANGED <<progress, before, calls, submitted, argument, pool, selection, stored,
                   response, usage, exam_sessions, completing>>

\* lines 1422-1434: request r processes its answer on the progress it read and
\* writes the result over the stored document
Save(r) ==
    /\ handlers[r].pc = "loaded"
    /\ stored' = [found |-> TRUE,
                  document |-> process_answer(handlers[r].progress_obj,
                                              handlers[r].answer,
                                              handlers[r].question)]
    /\ handlers' = [handlers EXCEPT ![r].pc = "saved"]
    /\ UNCHANGED <<progress, before, calls, submitted, argument, pool, selection,
                   response, usage, exam_sessions, completing>>

NextServer ==
    \/ \E r \in Requests, question \in Questions, is_correct \in BOOLEAN,
          time_taken \in TimeTakenValues :
        Load(r, [is_correct |-> is_correct, time_taken |-> time_taken], question)
    \/ \E r \in Requests : Save(r)

SpecServer == Init /\ [][NextServer]_vars

\* the stored document after request a then request b, one after the other
Serial(a, b) ==
    process_answer(process_answer(progress, handlers[a].answer, handlers[a].question),
                   handlers[b].answer, handlers[b].question)

\* C20: once two submissions of the same user have both completed, the
\* stored progress reflects both answers: total_questions_answered has grown
\* by 2 and the document is the one some serial order of the two produces.
C20_AsStated ==
    (\A r \in Requests : handlers[r].pc = "saved") =>
        /\ stored.document.total_questions_answered
               = progress.total_questions_answered + 2
        /\ stored.document \in {Serial("r1", "r2"), Serial("r2", "r1")}

\* the ids of the questions of a list, as a set
IdsOf(questions) == {questions[i].id : i \in 1..Len(questions)}

\* the number of pool questions of a category at a difficulty
Matching(category, difficulty) ==
    Cardinality({i \in 1..Len(QuestionPool) :
                    /\ QuestionPool[i].category = category
                    /\ QuestionPool[i].difficulty = difficulty})

\* position of a returned question in the pool
PoolIndex(question) == CHOOSE i \in 1..Len(QuestionPool) : QuestionPool[i] = question

\* C13: without a category and with count > 0, the result lists the
\* questions of a weaker category before those of a stronger one, keeps the
\* pool order inside a category, and is the first count entries of that list.
C13_AsStated ==
    (selection.made /\ selection.category = None /\ selection.count > 0) =>
        LET selected == selection.selected
        IN  /\ \A i, j \in 1..Len(selected) :
                   i < j =>
                       /\ ~ScoreBelow(progress, selected[j].category, selected[i].category)
                       /\ selected[i].category = selected[j].category
                              => PoolIndex(selected[i]) < PoolIndex(selected[j])
            /\ \E order \in get_categories_by_performance(progress) :
                   selected = Slice(Extended(progress, QuestionPool, order, Len(order)),
                                    selection.count)

\* C14: with a category and count > 0, the result holds only pool questions
\* of that category at the category's current difficulty (Foundational
\* without progress), each at most once, min(count, number matching) of them.
C14_CategoryMode ==
    (selection.made /\ selection.category # None /\ selection.count > 0) =>
        LET selected == selection.selected
            target == IF selection.category \in DOMAIN progress.category_progress
                      THEN progress.category_progress[selection.category].current_difficulty
                      ELSE EASY
            matching == Matching(selection.category, target)
        IN  /\ \A i \in 1..Len(selected) :
                   /\ selected[i].category = selection.category
                   /\ selected[i].difficulty = target
                   /\ \E k \in 1..Len(QuestionPool) : QuestionPool[k] = selected[i]
            /\ Cardinality(IdsOf(selected)) = Len(selected)
            /\ Len(selected) = (IF selection.count < matching THEN selection.count
                                ELSE matching)

\* C14 witness: more questions asked for than match, and all matches returned
C14_Witness ==
    /\ selection.made
    /\ selection.category = "renal"
    /\ selection.count = 3
    /\ "renal" \notin DOMAIN progress.category_progress
    /\ IdsOf(selection.selected) = {"q2", "q4"}

\* C15: without a category, the result holds only questions whose category
\* has a CategoryProgress entry and whose difficulty is that category's
\* current difficulty; it is empty for a user without category entries.
C15_AdaptiveMode ==
    (selection.made /\ selection.category = None) =>
        /\ \A i \in 1..Len(selection.selected) :
               /\ selection.selected[i].category \in DOMAIN progress.category_progress
               /\ selection.selected[i].difficulty
                      = progress.category_progress[selection.selected[i].category]
                            .current_difficulty
        /\ DOMAIN progress.category_progress = {} => selection.selected = <<>>

\* C15 witness: questions were returned for the one category with progress
\* while the pool holds Foundational questions of a category without progress
C15_Witness ==
    /\ selection.made
    /\ selection.category = None
    /\ selection.selected # <<>>
    /\ DOMAIN progress.category_progress = {"cardiology"}
    /\ Matching("renal", EASY) > 0

\* a second C15 case: a user without category entries gets nothing
C15_WitnessNewUser ==
    /\ selection.made
    /\ selection.category = None
    /\ selection.count > 0
    /\ DOMAIN progress.category_progress = {}
    /\ selection.selected = <<>>

\* C16: a count of zero or less returns the empty sequence.
C16_AsStated ==
    (selection.made /\ selection.count <= 0) => selection.selected = <<>>

\* C19: get_next_questions leaves the progress and the caller's pool, its
\* contents and their order, as they were, with or without a category.
C19_SelectionIsPureRead ==
    selection.made =>
        /\ pool = QuestionPool
        /\ progress = before
        /\ argument = before

\* C19 witness: a call without a category returned questions in another
\* order than the pool's
C19_Witness ==
    /\ selection.made
    /\ selection.category = None
    /\ Len(selection.selected) >= 2
    /\ PoolIndex(selection.selected[1]) > PoolIndex(selection.selected[2])
    /\ pool = QuestionPool

\* a second C19 case: a call with a category
C19_WitnessCategory ==
    /\ selection.made
    /\ selection.category # None
    /\ Len(selection.selected) >= 2
    /\ PoolIndex(selection.selected[1]) > PoolIndex(selection.selected[2])
    /\ pool = QuestionPool

\* C22: at Advanced no answer raises the category, and a wrong answer that
\* brings the active tracker's wrong count to 2 lowers the category to
\* Proficient, also when the window after that answer holds 3 correct of 4.
C22_AdvancedDropsDespiteWindow ==
    (calls # <<>> /\ Last.level = EXTREME) =>
        /\ Last.new_level <= EXTREME
        /\ LevelOf(progress, Last.category) \in DifficultyLevel
        /\ (~Last.is_correct /\ WrongAtRules = LEVEL_DOWN_WRONG_THRESHOLD) =>
               /\ Last.new_level = HARD
               /\ LevelOf(progress, Last.category) = HARD

\* C22 witness: wrong, correct, correct, correct, wrong at Advanced ended at
\* Proficient with a window of 3 correct of 4
C22_Witness ==
    /\ submitted = 5
    /\ Last.level = EXTREME
    /\ ~Last.is_correct
    /\ WrongAtRules = 2
    /\ WindowAtRules = <<TRUE, TRUE, TRUE, FALSE>>
    /\ LevelOf(progress, Last.category) = HARD

\* C24: after every call, every tracker of a level above Foundational has a
\* wrong count of 0 or 1.
C24_WrongCountBelowTwoAboveFoundational ==
    \A key \in DOMAIN progress.subcategory_tracking :
        key[3] > EASY =>
            progress.subcategory_tracking[key].wrong_count_at_level \in {0, 1}

\* C24 witness: a second wrong answer above Foundational changed the level
\* and left the tracker it was recorded on with a wrong count of 0, while
\* another tracker above Foundational holds a wrong count of 1
C24_Witness ==
    /\ submitted >= 2
    /\ Last.level > EASY
    /\ WrongAtRules = 2
    /\ ChangedLevel(Len(calls))
    /\ progress.subcategory_tracking[ActiveKey].wrong_count_at_level = 0
    /\ \E key \in DOMAIN progress.subcategory_tracking :
           /\ key[3] > EASY
           /\ progress.subcategory_tracking[key].wrong_count_at_level = 1

\* C25: a call for category c and subcategory s changes only the
\* CategoryProgress of c and the tracker of (c, s, level before); it may add
\* an empty tracker for (c, s, new level); every other category entry and
\* every other existing tracker is unchanged and no tracker is removed.
C25_OnlyAnsweredCategoryAndTracker ==
    calls # <<>> =>
        /\ DOMAIN progress.category_progress
               = DOMAIN before.category_progress \cup {Last.category}
        /\ \A category \in DOMAIN before.category_progress \ {Last.category} :
               progress.category_progress[category] = before.category_progress[category]
        /\ DOMAIN before.subcategory_tracking \subseteq DOMAIN progress.subcategory_tracking
        /\ DOMAIN progress.subcategory_tracking
               \subseteq DOMAIN before.subcategory_tracking \cup {ActiveKey, NewLevelKey}
        /\ \A key \in DOMAIN before.subcategory_tracking \ {ActiveKey} :
               progress.subcategory_tracking[key] = before.subcategory_tracking[key]
        /\ (NewLevelKey # ActiveKey /\ NewLevelKey \notin DOMAIN before.subcategory_tracking)
               => progress.subcategory_tracking[NewLevelKey] = NewTracking

\* C25 witness: a call changed the level and added the new level's tracker
\* while another category and another tracker with recorded answers exist
C25_Witness ==
    /\ submitted >= 1
    /\ ChangedLevel(Len(calls))
    /\ NewLevelKey \notin DOMAIN before.subcategory_tracking
    /\ \E category \in DOMAIN before.category_progress :
           /\ category # Last.category
           /\ before.category_progress[category].total_answered > 0
    /\ \E key \in DOMAIN before.subcategory_tracking :
           /\ key # ActiveKey
           /\ before.subcategory_tracking[key].recent_answers # <<>>

\* the sum of a counter over the categories of a set
RECURSIVE SumOverCategories(_, _, _)
SumOverCategories(p, categories, counter) ==
    IF categories = {} THEN 0
    ELSE LET category == CHOOSE c \in categories : TRUE
         IN  p.category_progress[category][counter]
                 + SumOverCategories(p, categories \ {category}, counter)

\* C26: the global total_questions_answered and total_correct are the sums
\* of the categories' total_answered and total_correct, and total_correct is
\* at most total_answered globally and in each category.
C26_TotalsAreSums ==
    /\ progress.total_questions_answered
           = SumOverCategories(progress, DOMAIN progress.category_progress, "total_answered")
    /\ progress.total_correct
           = SumOverCategories(progress, DOMAIN progress.category_progress, "total_correct")
    /\ progress.total_correct <= progress.total_questions_answered
    /\ \A category \in DOMAIN progress.category_progress :
           progress.category_progress[category].total_correct
               <= progress.category_progress[category].total_answered

\* C26 witness: two categories have answers, wrong ones among them
C26_Witness ==
    /\ submitted >= 2
    /\ Cardinality(DOMAIN progress.category_progress) = 2
    /\ \A category \in DOMAIN progress.category_progress :
           progress.category_progress[category].total_correct
               < progress.category_progress[category].total_answered
    /\ progress.total_correct > 0

\* the number of correct answers at the end of the first n calls
RECURSIVE CorrectSinceLastWrong(_)
CorrectSinceLastWrong(n) ==
    IF n = 0 \/ ~calls[n].is_correct THEN 0
    ELSE 1 + CorrectSinceLastWrong(n - 1)

\* C27: highest_streak >= current_streak; current_streak is the number of
\* correct answers since the most recent wrong answer in any category; a
\* wrong answer leaves the correct_streak of the other categories unchanged.
C27_GlobalStreak ==
    /\ progress.highest_streak >= progress.current_streak
    /\ progress.current_streak = CorrectSinceLastWrong(Len(calls))
    /\ (calls # <<>> /\ ~Last.is_correct) =>
           \A category \in DOMAIN before.category_progress \ {Last.category} :
               progress.category_progress[category].correct_streak
                   = before.category_progress[category].correct_streak

\* C27 witness: a wrong answer in one category ended a global streak while
\* another category keeps its correct_streak
C27_Witness ==
    /\ submitted >= 1
    /\ ~Last.is_correct
    /\ before.current_streak > 0
    /\ progress.current_streak = 0
    /\ progress.highest_streak > 0
    /\ \E category \in DOMAIN progress.category_progress :
           /\ category # Last.category
           /\ progress.category_progress[category].correct_streak > 0

\* call d lowered the category of the last call from the level above the
\* last call's level to that level, and the category has stayed there since
DroppedBackAt(d) ==
    /\ calls[d].category = Last.category
    /\ calls[d].level = Last.level + 1
    /\ calls[d].new_level = Last.level
    /\ \A m \in (d + 1)..(Len(calls) - 1) :
           calls[m].category = Last.category => ~ChangedLevel(m)

\* the last answer recorded on the last call's tracker before call d raised
\* the level: the tracker was vacated by a level-up
VacatedByLevelUpBefore(d) ==
    \E v \in 1..(d - 1) :
        /\ KeyOfCall(v) = ActiveKey
        /\ calls[v].new_level = calls[v].level + 1
        /\ \A m \in (v + 1)..(d - 1) : KeyOfCall(m) # ActiveKey

\* C23 as stated: when a tracker at level L was vacated by a level-up and the
\* category later drops back to L, the first correct answer recorded on that
\* tracker, whatever was recorded on it before since the return, raises the
\* category to L+1.
C23_AsStated ==
    ( /\ calls # <<>>
      /\ Last.is_correct
      /\ \E d \in 1..(Len(calls) - 1) :
             /\ DroppedBackAt(d)
             /\ VacatedByLevelUpBefore(d)
             /\ \A m \in (d + 1)..(Len(calls) - 1) :
                    KeyOfCall(m) = ActiveKey => ~calls[m].is_correct )
    => Last.new_level = Last.level + 1

\* C23 amended: when a tracker at level L was vacated by a level-up and the
\* category later drops back to L, the first answer recorded on that tracker
\* after the return raises the category to L+1 at once when it is correct.
C23_ResumesOldWindow ==
    ( /\ calls # <<>>
      /\ Last.is_correct
      /\ \E d \in 1..(Len(calls) - 1) :
             /\ DroppedBackAt(d)
             /\ VacatedByLevelUpBefore(d)
             /\ \A m \in (d + 1)..(Len(calls) - 1) : KeyOfCall(m) # ActiveKey )
    => /\ Last.new_level = Last.level + 1
       /\ LevelOf(progress, Last.category) = Last.level + 1

\* C23 witness: back at Foundational, one correct answer on the old tracker,
\* whose window held correct, correct, wrong, correct, raised the category
C23_Witness ==
    /\ submitted >= 1
    /\ Last.is_correct
    /\ Last.level = EASY
    /\ \E d \in 1..(Len(calls) - 1) :
           /\ DroppedBackAt(d)
           /\ VacatedByLevelUpBefore(d)
           /\ \A m \in (d + 1)..(Len(calls) - 1) : KeyOfCall(m) # ActiveKey
    /\ TrackerIn(before, ActiveKey).recent_answers = <<TRUE, TRUE, FALSE, TRUE>>
    /\ LevelOf(progress, Last.category) = MEDIUM

----------------------------------------------------------------------------
(* get_adaptive_questions: the caller of get_next_questions (server.py 1295-1380) *)

\* the question collections the query of lines 1322-1338 may see for the
\* user's tenant and source filter: the whole pool, one without
\* Foundational questions, an empty one
QuestionBanks ==
    { QuestionPool,
      SelectSeq(QuestionPool, LAMBDA q : q.difficulty # EASY),
      <<>> }

\* lines 1335-1345: the questions the query returns
QueriedQuestions(bank, category) ==
    IF category # None
    THEN SelectSeq(bank, LAMBDA q : q.category = category)
    ELSE bank

\* a default that never looks for Foundational questions
FallbackOfAllQuestions(questions_obj, count) ==
    { Slice(shuffled, count) : shuffled \in Shuffles(questions_obj) }

\* lines 1362-1369: the default when the engine selected nothing, the lists
\* it may return
Fallback(questions_obj, count) ==
    LET easy_questions == SelectSeq(questions_obj, LAMBDA q : q.difficulty = EASY)
    IN  IF Len(easy_questions) > 0
        THEN { Slice(shuffled, count) : shuffled \in Shuffles(easy_questions) }
        ELSE { Slice(shuffled, count) : shuffled \in Shuffles(questions_obj) }

\* the replies get_adaptive_questions may give: what the engine selected
\* and what is returned (the options of each question are reordered at
\* lines 1371-1378, the questions and their order are not)
get_adaptive_questions(progress_obj, questions_obj, category, count) ==
    IF Len(questions_obj) = 0
    THEN { [selected |-> <<>>, returned |-> <<>>] }
    ELSE UNION {
            IF Len(result.selected) = 0
            THEN { [selected |-> result.selected, returned |-> returned] :
                      returned \in Fallback(questions_obj, count) }
            ELSE { [selected |-> result.selected, returned |-> result.selected] }
            : result \in get_next_questions(progress_obj, questions_obj, category, count) }

\* one get_adaptive_questions request on the stored progress
GetAdaptiveQuestions(bank, category, count) ==
    LET questions_obj == QueriedQuestions(bank, category)
    IN  \E reply \in get_adaptive_questions(LoadedProgress(stored), questions_obj,
                                            category, count) :
            /\ response' = [made |-> TRUE, category |-> category, count |-> count,
                            questions_obj |-> questions_obj,
                            selected |-> reply.selected, returned |-> reply.returned]
            /\ UNCHANGED <<progress, before, calls, submitted, argument, pool, selection,
                           stored, handlers, usage, exam_sessions, completing>>

NextAdaptive ==
    \/ \E question \in Questions, is_correct \in BOOLEAN, time_taken \in TimeTakenValues :
        /\ ~response.made
        /\ submitted < MaxSelectAnswers
        /\ ProcessAnswer([is_correct |-> is_correct, time_taken |-> time_taken], question)
    \/ \E bank \in QuestionBanks, category \in QuestionCategory \cup {None},
          count \in CountValues :
        /\ ~response.made
        /\ GetAdaptiveQuestions(bank, category, count)

SpecAdaptive == Init /\ [][NextAdaptive]_vars

\* the Foundational questions among the queried ones
EasyOf(questions_obj) == SelectSeq(questions_obj, LAMBDA q : q.difficulty = EASY)

\* the smaller of two numbers
Min(a, b) == IF a < b THEN a ELSE b

C21_WitnessNoEasy ==
    /\ response.made
    /\ response.count > 0
    /\ response.selected = <<>>
    /\ EasyOf(response.questions_obj) = <<>>
    /\ response.returned # <<>>

----------------------------------------------------------------------------
(* submit_answer of a user on a limited tier (server.py 1060-1135, 1390-1434) *)

\* the tiers with a daily limit
LimitedTiers == {tier \in DOMAIN DAILY_LIMITS_BY_TIER : DAILY_LIMITS_BY_TIER[tier] # -1}

\* how many answers the user may still submit today in the initial states
RemainingValues == {0, 1}

\* the larger of two numbers
Max(a, b) == IF a > b THEN a ELSE b

\* check_daily_question_limit, lines 1060-1119: can_continue
CanContinue(daily_usage) ==
    LET daily_limit == DAILY_LIMITS_BY_TIER[daily_usage.tier]
    IN  \/ daily_limit = -1
        \/ ~daily_usage.found
        \/ Max(0, daily_limit - daily_usage.questions_viewed) > 0

\* n more correct answers to the first cardiology question in the world w
\* (the comparison has the first half evaluated before the second is begun)
RECURSIVE AnsweredTimes(_, _)
AnsweredTimes(w, n) ==
    IF n = 0 THEN w
    ELSE IF n = 1
         THEN Answered(w, [is_correct |-> TRUE,
                           time_taken |-> CHOOSE t \in TimeTakenValues : TRUE],
                       [category |-> "cardiology", subcategory |-> None])
         ELSE LET half == AnsweredTimes(w, n \div 2)
              IN  IF half.calls = half.calls /\ half.progress = half.progress
                  THEN AnsweredTimes(half, n - (n \div 2))
                  ELSE half

\* the user has answered the first cardiology question correctly n times today
AnsweredToday(n) == AnsweredTimes(Registered, n)

\* a user of a limited tier who has used all of today's questions, or all
\* but the remaining ones, on answers
InitLimited ==
    \E tier \in LimitedTiers, remaining \in RemainingValues :
        LET n == DAILY_LIMITS_BY_TIER[tier] - remaining
            w == AnsweredToday(n)
        IN  /\ progress = w.progress
            /\ before = w.before
            /\ calls = w.calls
            /\ submitted = 0
            /\ argument = w.argument
            /\ pool = QuestionPool
            /\ selection = NoSelection
            /\ stored = [found |-> TRUE, document |-> w.progress]
            /\ handlers = [r \in Requests |-> NoHandler]
            /\ response = NoResponse
            /\ usage = [tier |-> tier, found |-> TRUE, questions_viewed |-> n,
                        accepted |-> n]
            /\ exam_sessions = ExamSessions
            /\ completing = NotCompleting

\* lines 1390-1397: request r arrives and the limit is checked; the first
\* check of a day inserts the daily_usage record (lines 1104-1112)
CheckLimit(r, answer, question) ==
    /\ handlers[r].pc = "none"
    /\ handlers' = [handlers EXCEPT ![r] =
                        [pc |-> IF CanContinue(usage) THEN "checked" ELSE "rejected",
                         answer |-> answer,
                         question |-> [category |-> question.category,
                                       subcategory |-> question.subcategory],
                         progress_obj |-> handlers[r].progress_obj]]
    /\ usage' = IF DAILY_LIMITS_BY_TIER[usage.tier] # -1 /\ ~usage.found
                THEN [usage EXCEPT !.found = TRUE, !.questions_viewed = 0]
                ELSE usage
    /\ UNCHANGED <<progress, before, calls, submitted, argument, pool, selection, stored,
                   response, exam_sessions, completing>>

\* lines 1399-1401 and 1121-1135: the usage of the day is incremented
IncrementUsage(r) ==
    /\ handlers[r].pc = "checked"
    /\ handlers' = [handlers EXCEPT ![r].pc = "counted"]
    /\ usage' = IF DAILY_LIMITS_BY_TIER[usage.tier] # -1
                THEN [usage EXCEPT !.found = TRUE, !.questions_viewed = @ + 1]
                ELSE usage
    /\ UNCHANGED <<progress, before, calls, submitted, argument, pool, selection, stored,
                   response, exam_sessions, completing>>

\* lines 1403-1420: the question and the stored progress are read
LoadCounted(r) ==
    /\ handlers[r].pc = "counted"
    /\ handlers' = [handlers EXCEPT ![r].pc = "loaded",
                                    ![r].progress_obj = LoadedProgress(stored)]
    /\ UNCHANGED <<progress, before, calls, submitted, argument, pool, selection, stored,
                   response, usage, exam_sessions, completing>>

NextLimited ==
    \/ \E r \in Requests, question \in Questions, is_correct \in BOOLEAN,
          time_taken \in TimeTakenValues :
        CheckLimit(r, [is_correct |-> is_correct, time_taken |-> time_taken], question)
    \/ \E r \in Requests : IncrementUsage(r)
    \/ \E r \in Requests : LoadCounted(r)
    \/ \E r \in Requests : Save(r)

SpecLimited == InitLimited /\ [][NextLimited]_vars

\* the answers of the day that have been processed and stored
AcceptedToday ==
    usage.accepted + Cardinality({r \in Requests : handlers[r].pc = "saved"})

\* C29: for a user on a limited tier, the number of answers accepted in one
\* day never exceeds the tier's limit, also when submissions run concurrently.
C29_AsStated ==
    DAILY_LIMITS_BY_TIER[usage.tier] # -1 =>
        AcceptedToday <= DAILY_LIMITS_BY_TIER[usage.tier]

----------------------------------------------------------------------------
(* complete_exam and the unlock state (server.py 2096-2199) *)

\* line 2144: the score in percent, rounded down
ExamScore(correct, total) ==
    IF total > 0 THEN (correct * 100) \div total ELSE 0

\* line 2154: a qualifying session has 50 or more questions and 85% or more
IsQualifying(total, score) == total >= 50 /\ score >= 85

\* lines 2102-2154: a complete_exam request for exam_id reads the exam and
\* its questions and computes the score
ScoreExam(exam_id) ==
    LET exam == exam_sessions[exam_id]
        score == ExamScore(exam.correct, exam.total)
    IN  /\ completing.pc = "none"
        /\ completing.started < MaxCompletions
        /\ completing' = [completing EXCEPT
                              !.pc = "scored",
                              !.exam_id = exam_id,
                              !.score = score,
                              !.is_qualifying = IsQualifying(exam.total, score),
                              !.started = @ + 1]
        /\ UNCHANGED <<progress, before, calls, submitted, argument, pool, selection,
                       stored, handlers, response, usage, exam_sessions>>

\* lines 2157-2159: for a qualifying session the stored counter is read
ReadQualifying ==
    /\ completing.pc = "scored"
    /\ completing.is_qualifying
    /\ completing' = [completing EXCEPT
                          !.pc = "read",
                          !.new_qualifying =
                              (IF stored.found
                               THEN stored.document.qualifying_sessions_completed
                               ELSE 0) + 1]
    /\ UNCHANGED <<progress, before, calls, submitted, argument, pool, selection,
                   stored, handlers, response, usage, exam_sessions>>

\* lines 2161-2177: the counter read plus one is written, with the unlock
\* flag when it is 3 or more
WriteQualifying ==
    /\ completing.pc = "read"
    /\ stored' = [found |-> TRUE,
                  document |->
                      [LoadedProgress(stored) EXCEPT
                          !.qualifying_sessions_completed = completing.new_qualifying,
                          !.full_bank_unlocked =
                              IF completing.new_qualifying >= 3 THEN TRUE ELSE @]]
    /\ completing' = [completing EXCEPT
                          !.pc = "written",
                          !.increments[completing.exam_id] = @ + 1]
    /\ UNCHANGED <<progress, before, calls, submitted, argument, pool, selection,
                   handlers, response, usage, exam_sessions>>

\* lines 2189-2199: the exam document is marked completed and the request ends
UpdateExam ==
    /\ \/ completing.pc = "written"
       \/ completing.pc = "scored" /\ ~completing.is_qualifying
    /\ exam_sessions' = [exam_sessions EXCEPT
                             ![completing.exam_id].completed = TRUE,
                             ![completing.exam_id].score = completing.score,
                             ![completing.exam_id].is_qualifying_session =
                                 completing.is_qualifying]
    /\ completing' = [completing EXCEPT !.pc = "none"]
    /\ UNCHANGED <<progress, before, calls, submitted, argument, pool, selection,
                   stored, handlers, response, usage>>

\* the submit_answer request that runs beside the complete_exam requests
SubmitRequests == {"r1"}

NextUnlock ==
    \/ \E r \in SubmitRequests, question \in Questions, is_correct \in BOOLEAN,
          time_taken \in TimeTakenValues :
        Load(r, [is_correct |-> is_correct, time_taken |-> time_taken], question)
    \/ \E r \in SubmitRequests : Save(r)
    \/ \E exam_id \in DOMAIN ExamSessions : ScoreExam(exam_id)
    \/ ReadQualifying
    \/ WriteQualifying
    \/ UpdateExam

SpecUnlock == Init /\ [][NextUnlock]_vars

\* C28: in the persisted progress qualifying_sessions_completed never
\* decreases and full_bank_unlocked, once true, stays true, under every
\* interleaving of submit_answer and complete_exam.
C28_AsStated ==
    [][ /\ stored'.document.qualifying_sessions_completed
              >= stored.document.qualifying_sessions_completed
        /\ stored.document.full_bank_unlocked => stored'.document.full_bank_unlocked
      ]_vars

\* the exams of which a completion has been counted toward the unlock
CountedExams == {exam_id \in DOMAIN ExamSessions : completing.increments[exam_id] > 0}

\* C30: however often complete_exam is called for one exam, the exam adds at
\* most 1 to qualifying_sessions_completed, and full_bank_unlocked is true
\* only after 3 distinct qualifying exams.
C30_AsStated ==
    /\ \A exam_id \in DOMAIN ExamSessions : completing.increments[exam_id] <= 1
    /\ stored.document.full_bank_unlocked => Cardinality(CountedExams) >= 3

====
